---- MODULE Spec2Model ----
(***************************************************************************)
(* Seed recovery for the 32-bit Mersenne Twister (tetctf-2020/crypto/2020). *)
(* The generators, the verifiers and the search routines of the solvers,   *)
(* with 32-bit words kept at their width.                                   *)
(***************************************************************************)
EXTENDS Integers, Sequences, FiniteSets, TLC

(***************************************************************************)
(* The state of one run of one routine.                                     *)
(*   prog    the routine that was called                                    *)
(*   pc      its position                                                   *)
(*   args    its arguments: idx1, idx2, val1, val2 and the range start, end *)
(*   loc     its local variables                                            *)
(*   ret     its return value                                               *)
(*   origin  where the two observed values come from (not program state)    *)
(*   sent    what the routine has sent to the server, in order              *)
(*   msg     the last outcome line it printed                               *)
(*   pool    the worker pool of brute_force_seed_parallel                   *)
(*   rng     the generator state (mt, index) a routine draws from step by   *)
(*           step: the generator of the random module, or the list mt and   *)
(*           the cursor of check_seed_fast                                  *)
(***************************************************************************)
VARIABLES prog, pc, args, loc, ret, origin, sent, msg, pool, rng

(***************************************************************************)
(* 32-bit words.  A word is the pair <<hi, lo>> of its two 16-bit halves,   *)
(* value hi * 65536 + lo, so that no intermediate result leaves the range   *)
(* of the checker's integers.                                               *)
(***************************************************************************)
H == 2 ^ 16

W(hi, lo) == <<hi, lo>>

Pow2(k) == 2 ^ k

\* bitwise operations on 4-bit numbers, bit by bit
Xor4(a, b) ==
    ((a + b) % 2) + 2 * (((a \div 2) + (b \div 2)) % 2)
    + (4 * (((a \div 4) + (b \div 4)) % 2) + 8 * (((a \div 8) + (b \div 8)) % 2))

And4(a, b) ==
    ((a % 2) * (b % 2)) + 2 * (((a \div 2) % 2) * ((b \div 2) % 2))
    + (4 * (((a \div 4) % 2) * ((b \div 4) % 2)) + 8 * ((a \div 8) * (b \div 8)))

\* and on numbers of k 4-bit digits, digit by digit
RECURSIVE XorDigits(_, _, _)
XorDigits(a, b, k) ==
    IF k = 0 THEN 0
    ELSE Xor4(a % 16, b % 16) + 16 * XorDigits(a \div 16, b \div 16, k - 1)

RECURSIVE AndDigits(_, _, _)
AndDigits(a, b, k) ==
    IF k = 0 THEN 0
    ELSE And4(a % 16, b % 16) + 16 * AndDigits(a \div 16, b \div 16, k - 1)

Xor16(a, b) == XorDigits(a, b, 4)

And16(a, b) == AndDigits(a, b, 4)

\* a ^ b
Xor(a, b) == W(Xor16(a[1], b[1]), Xor16(a[2], b[2]))

\* a & b
And(a, b) == W(And16(a[1], b[1]), And16(a[2], b[2]))

\* a | b
Or(a, b) == W(a[1] + b[1] - And16(a[1], b[1]), a[2] + b[2] - And16(a[2], b[2]))

\* a >> k (logical), 0 <= k < 32
Shr(a, k) ==
    IF k >= 16 THEN W(0, a[1] \div Pow2(k - 16))
    ELSE W(a[1] \div Pow2(k), (a[1] % Pow2(k)) * Pow2(16 - k) + a[2] \div Pow2(k))

\* (a << k) & 0xffffffff, 0 <= k < 32
Shl(a, k) ==
    IF k >= 16 THEN W((a[2] * Pow2(k - 16)) % H, 0)
    ELSE W(((a[1] * Pow2(k)) % H) + a[2] \div Pow2(16 - k), (a[2] * Pow2(k)) % H)

\* (a + b) & 0xffffffff
Add(a, b) == W((a[1] + b[1] + (a[2] + b[2]) \div H) % H, (a[2] + b[2]) % H)

\* (a - b) & 0xffffffff
Sub(a, b) ==
    IF a[2] >= b[2] THEN W((a[1] - b[1] + H) % H, a[2] - b[2])
    ELSE W((a[1] - b[1] - 1 + 2 * H) % H, a[2] - b[2] + H)

\* the 32-bit product c * d of two 16-bit numbers, by the 8-bit halves of c:
\* t is the product of the upper half and s the sum of the lower 32 bits
Mul16Sum(t, s) == W((t \div 256) + s \div H, s % H)

Mul16(c, d) ==
    Mul16Sum((c \div 256) * d, (((c \div 256) * d) % 256) * 256 + (c % 256) * d)

\* (a * b) & 0xffffffff
MulSum(a, b, p) ==
    W((Mul16(a[1], b[2])[2] + Mul16(a[2], b[1])[2] + p[1]) % H, p[2])

Mul(a, b) == MulSum(a, b, Mul16(a[2], b[2]))

\* n & 0xffffffff for an integer n of the checker's range
Word(n) == W((n \div H) % H, n % H)

(***************************************************************************)
(* MT19937 constants (fast_solve.py).                                       *)
(***************************************************************************)
N == 624
M == 397
MATRIX_A == W(39176, 45279)       \* 0x9908b0df
UPPER_MASK == W(32768, 0)         \* 0x80000000
LOWER_MASK == W(32767, 65535)     \* 0x7fffffff
ZeroWord == W(0, 0)

(***************************************************************************)
(* init_genrand: mt[0] = seed; mt[i] = 1812433253 * (mt[i-1] ^             *)
(* (mt[i-1] >> 30)) + i, all modulo 2^32.                                   *)
(***************************************************************************)
InitMul == W(27655, 35173)        \* 1812433253 = 0x6c078965

InitNext(prev, mti) == Add(Mul(InitMul, Xor(prev, Shr(prev, 30))), Word(mti))

\* Ten applications of F in sequence.  The start state and the ten results are
\* built one after the other, each from the finished one before it.
Rep10(F(_), s0) ==
    LET s1 == F(s0)
        s2 == F(s1)
        s3 == F(s2)
        s4 == F(s3)
        s5 == F(s4)
        s6 == F(s5)
        s7 == F(s6)
        s8 == F(s7)
        s9 == F(s8)
        s10 == F(s9)
    IN  <<s0, s1, s2, s3, s4, s5, s6, s7, s8, s9, s10>>[11]

\* 1000 and 10000 applications of F in sequence.  A loop of fewer iterations
\* is run with a body that leaves the state alone once its counter is at the
\* end of its range.
Rep1000(F(_), s0) ==
    Rep10(LAMBDA s1 : Rep10(LAMBDA s2 : Rep10(F, s2), s1), s0)

Rep10000(F(_), s0) == Rep10(LAMBDA s1 : Rep1000(F, s1), s0)

\* body of "for mti in range(1, N)", counter st.i
InitStep(st) ==
    IF st.i >= N THEN st
    ELSE [mt |-> [st.mt EXCEPT ![st.i] = InitNext(st.mt[st.i - 1], st.i)],
          i |-> st.i + 1]

init_genrand(seed) ==
    Rep1000(InitStep,
            [mt |-> [[i \in 0..(N - 1) |-> ZeroWord] EXCEPT ![0] = seed],
             i |-> 1]).mt

(***************************************************************************)
(* genrand_int32(mt, index): the in-place twist when index >= N, then the   *)
(* temper of mt[index].  The result is the returned pair (r, index) and the *)
(* list mt as the call leaves it.                                           *)
(***************************************************************************)
\* y = (mt[a] & UPPER_MASK) | (mt[b] & LOWER_MASK)
\* mt[a] = mt[c] ^ (y >> 1) ^ (MATRIX_A if y & 1 else 0)
TwistSet(mt, a, c, y) ==
    [mt EXCEPT ![a] =
        Xor(Xor(mt[c], Shr(y, 1)), IF y[2] % 2 = 1 THEN MATRIX_A ELSE ZeroWord)]

TwistWord(mt, a, b, c) ==
    TwistSet(mt, a, c, Or(And(mt[a], UPPER_MASK), And(mt[b], LOWER_MASK)))

\* body of "for kk in range(N - M)" then "for kk in range(N - M, N - 1)",
\* counter st.kk running over 0 .. N-2
TwistStep(st) ==
    IF st.kk >= N - 1 THEN st
    ELSE [mt |-> TwistWord(st.mt, st.kk, st.kk + 1,
                           IF st.kk < N - M THEN st.kk + M ELSE st.kk + (M - N)),
          kk |-> st.kk + 1]

\* the twist with its last word taken one place too far
TwistLastOff(mt) == TwistWord(Rep1000(TwistStep, [mt |-> mt, kk |-> 0]).mt, N - 1, 0, M)

Twist(mt) == TwistWord(Rep1000(TwistStep, [mt |-> mt, kk |-> 0]).mt, N - 1, 0, M - 1)

TemperMaskB == W(40236, 22144)    \* 0x9d2c5680
TemperMaskC == W(61382, 0)        \* 0xefc60000

\* y ^= (y >> 11); y ^= ((y << 7) & 0x9d2c5680);
\* y ^= ((y << 15) & 0xefc60000); y ^= (y >> 18)
TemperA(y) == Xor(y, Shr(y, 11))
TemperB(y) == Xor(y, And(Shl(y, 7), TemperMaskB))
TemperC(y) == Xor(y, And(Shl(y, 15), TemperMaskC))
TemperD(y) == Xor(y, Shr(y, 18))

Temper(y0) == TemperD(TemperC(TemperB(TemperA(y0))))

\* GenrandOut returning a cursor one too far
GenrandOutSkips(mt, index) == [r |-> Temper(mt[index]), index |-> index + 2, mt |-> mt]

\* "y = mt[index]", the temper, "return y & 0xffffffff, index + 1"
GenrandOut(mt, index) == [r |-> Temper(mt[index]), index |-> index + 1, mt |-> mt]

genrand_int32(mt, index) ==
    IF index >= N THEN GenrandOut(Twist(mt), 0) ELSE GenrandOut(mt, index)

(***************************************************************************)
(* The library generator behind random.seed(n) and random.getrandbits(32): *)
(* MT19937 seeded by init_by_array with the key [abs(n)] (one 32-bit word   *)
(* for abs(n) < 2^32), cursor at N.                                          *)
(***************************************************************************)
ArraySeed == W(299, 54954)        \* 19650218
ArrayMul1 == W(25, 26125)         \* 1664525
ArrayMul2 == W(23896, 35685)      \* 1566083941

\* one step of the first loop of init_by_array, key of length 1 (j = 0)
\* "i += 1; if i >= N: mt[0] = mt[N-1]; i = 1" after mt[i] was set
ArrayAdvance(mt, i) ==
    IF i + 1 >= N THEN [mt |-> [mt EXCEPT ![0] = mt[N - 1]], i |-> 1]
    ELSE [mt |-> mt, i |-> i + 1]

KeyStep(st, key) ==
    ArrayAdvance(
        [st.mt EXCEPT ![st.i] =
            Add(Xor(st.mt[st.i],
                    Mul(Xor(st.mt[st.i - 1], Shr(st.mt[st.i - 1], 30)), ArrayMul1)),
                key)],
        st.i)

\* one step of the second loop of init_by_array
MixStep(st) ==
    ArrayAdvance(
        [st.mt EXCEPT ![st.i] =
            Sub(Xor(st.mt[st.i],
                    Mul(Xor(st.mt[st.i - 1], Shr(st.mt[st.i - 1], 30)), ArrayMul2)),
                Word(st.i))],
        st.i)

\* the loops of init_by_array: N steps of KeyStep ("k = max(N, key_length)"),
\* then N - 1 steps of MixStep; st.k counts the steps left
Counted(nx, k) == [mt |-> nx.mt, i |-> nx.i, k |-> k]

KeyLoopStep(st, key) ==
    IF st.k <= 0 THEN st ELSE Counted(KeyStep(st, key), st.k - 1)

MixLoopStep(st) ==
    IF st.k <= 0 THEN st ELSE Counted(MixStep(st), st.k - 1)

\* the state init_genrand(19650218) every init_by_array starts from
ArrayBase == init_genrand(ArraySeed)

\* the second loop, from the state the first loop leaves
MixLoop(a) == Rep1000(MixLoopStep, [mt |-> a.mt, i |-> a.i, k |-> N - 1])

init_by_array(key) ==
    [MixLoop(Rep1000(LAMBDA st : KeyLoopStep(st, key),
                     [mt |-> ArrayBase, i |-> 1, k |-> N])).mt
        EXCEPT ![0] = UPPER_MASK]

Abs(n) == IF n < 0 THEN 0 - n ELSE n

\* random.seed(seed): the generator state (mt, index = N)
random_seed(seed) == [mt |-> init_by_array(Word(Abs(seed))), index |-> N]

\* random.getrandbits(32) on generator state g
getrandbits32(g) == genrand_int32(g.mt, g.index)

(***************************************************************************)
(* Replays.  Draws(g, n) is the sequence of the first n values drawn from   *)
(* generator state g; the draw with index i is element i + 1.               *)
(***************************************************************************)
Drawn(st, d) ==
    [mt |-> d.mt, index |-> d.index, out |-> Append(st.out, d.r), n |-> st.n - 1]

DrawStep(st) ==
    IF st.n <= 0 THEN st ELSE Drawn(st, genrand_int32(st.mt, st.index))

Draws(g, n) ==
    Rep10000(DrawStep, [mt |-> g.mt, index |-> g.index, out |-> <<>>, n |-> n]).out

(***************************************************************************)
(* Bounds.  The seed ranges of the solvers are scaled down; the draw        *)
(* indices and the generators are not.                                      *)
(***************************************************************************)
\* stand-in for the 1000000 of random.randint(0, 1000000) (test_local.py:51)
SimHi == 2
\* the largest seed a run evaluates: 2000000 - 1 in test_local.py:84
MaxSeed == 2 * SimHi - 1
SeedDomain == 0..MaxSeed
\* the draw indices an observation may name
Indices == {0, 1, N}
MaxIndex == N
\* the draw predict_2020th returns is number TargetDraws
TargetDraws == 2020

\* Python's None: a value no seed equals
None == 0 - 1

Max(p, q) == IF p >= q THEN p ELSE q
Min(p, q) == IF p <= q THEN p ELSE q

(***************************************************************************)
(* The draws of each candidate seed, computed once.                         *)
(***************************************************************************)
\* random.seed(sd) followed by TargetDraws calls of random.getrandbits(32)
\* the generator state random.seed(sd) leaves
SeededState == [sd \in SeedDomain |-> random_seed(sd)]

PyTable == [sd \in SeedDomain |-> Draws(SeededState[sd], TargetDraws)]

\* the draws that span two twists
TwistSpan == 2 * N

\* the list init_genrand(sd) returns and what the twist of genrand_int32
\* makes of it
InitTable == [sd \in SeedDomain |-> init_genrand(Word(sd))]
TwistTable == [sd \in SeedDomain |-> Twist(InitTable[sd])]

\* mt = init_genrand(sd), index = N, followed by TwistSpan calls of
\* genrand_int32
FastTable ==
    [sd \in SeedDomain |->
        Draws([mt |-> init_genrand(Word(sd)), index |-> N], TwistSpan)]

\* solve.symbolic_mt19937_step: the temper of state[index], no twist
symbolic_mt19937_step(state, index) == Temper(state[index])

\* solve_with_z3, lines 50-62: the state the solver's constraints fix for
\* seed sd (mt[0] = seed, the recurrence of init_genrand) and the outputs it
\* constrains, out[i + 1] for index i < N
SymRow(state) == [j \in 1..N |-> symbolic_mt19937_step(state, j - 1)]

SymTable == [sd \in SeedDomain |-> SymRow(init_genrand(Word(sd)))]

(***************************************************************************)
(* The verifiers.                                                           *)
(***************************************************************************)
\* "for i in range(max(idx1, idx2) + 1)": draw i is out[i + 1]; the body
\* acts at i = idx1 and at i = idx2 only, and the loop is left at the first
\* of the two draws that differs from its observed value.  TRUE when the
\* loop runs to its end.
ReplayMatches(out, idx1, idx2, val1, val2) ==
    \A i \in {j \in {idx1, idx2} : 0 <= j /\ j <= Max(idx1, idx2)} :
        /\ ~(i = idx1 /\ out[i + 1] # val1)
        /\ ~(i = idx2 /\ out[i + 1] # val2)

\* simple_solve.check_seed: replay with the library generator
check_seed(seed, idx1, idx2, val1, val2) ==
    ReplayMatches(PyTable[seed], idx1, idx2, val1, val2)

\* check_seed_match with the test of idx2 left out
check_seed_match_first_only(seed, idx1, idx2, val1, val2) ==
    IF PyTable[seed][idx1 + 1] = val1 THEN seed ELSE None

\* solve_remote.check_seed_match: the seed when the replay matches, else None
check_seed_match(seed, idx1, idx2, val1, val2) ==
    IF ReplayMatches(PyTable[seed], idx1, idx2, val1, val2) THEN seed ELSE None

\* fast_solve.check_seed_fast: replay with init_genrand and genrand_int32
check_seed_fast(seed, idx1, idx2, val1, val2) ==
    ReplayMatches(FastTable[seed], idx1, idx2, val1, val2)

\* the inner loop with the test of idx2 left out
InlineMatchFirstOnly(seed, idx1, idx2, val1, val2) ==
    PyTable[seed][idx1 + 1] = val1

\* the flag "match" of brute_force_seed after its inner loop
InlineMatch(seed, idx1, idx2, val1, val2) ==
    ReplayMatches(PyTable[seed], idx1, idx2, val1, val2)

\* predict_2020th with one draw too few
predict_2020th_short(seed) == PyTable[seed][TargetDraws - 1]

\* predict_2020th: the last of TargetDraws draws after random.seed(seed)
predict_2020th(seed) == PyTable[seed][TargetDraws]

(***************************************************************************)
(* Inputs.  The two observed values are read from the server or typed in;   *)
(* here they are draws of one of the generators: val1 from seed sa and val2 *)
(* from seed sb.                                                            *)
(***************************************************************************)
Generators == {"py", "fast", "sym"}

\* the draws of every seed under generator gen
TableOf(gen) ==
    IF gen = "py" THEN PyTable ELSE IF gen = "fast" THEN FastTable ELSE SymTable

\* val2 comes from the seed of val1 or, for an inconsistent pair, from the next
Origins ==
    {o \in [gen : Generators, sa : SeedDomain, sb : SeedDomain] :
        o.sb \in {o.sa, (o.sa + 1) % (MaxSeed + 1)}}

\* the origins whose generator has a draw for both indices
OriginsFor(i1, i2) == {o \in Origins : o.gen = "sym" => Max(i1, i2) < N}

ArgsFrom(tab, o, i1, i2, lo, hi) ==
    [idx1 |-> i1, idx2 |-> i2,
     val1 |-> tab[o.sa][i1 + 1], val2 |-> tab[o.sb][i2 + 1],
     start |-> lo, end |-> hi]

MakeArgs(o, i1, i2, lo, hi) == ArgsFrom(TableOf(o.gen), o, i1, i2, lo, hi)

NoLocals == [seed |-> 0, base |-> 0, limit |-> 0, stage |-> 0,
             target |-> ZeroWord, prediction |-> None,
             count |-> [sd \in SeedDomain |-> 0]]

\* loc with one more evaluation of candidate seed counted (loc.count is not
\* program state: it counts the calls of the verifier on each seed)
Counting(l, seed) == [l EXCEPT !.count[seed] = l.count[seed] + 1]

vars == <<prog, pc, args, loc, ret, origin, sent, msg, pool, rng>>

\* no generator state is followed step by step
NoRng == [mt |-> <<>>, index |-> 0]

\* no pool: the routine is single-threaded
NoPool == [taskq |-> <<>>, wk |-> <<>>, outq |-> <<>>, cur |-> <<>>, first |-> None,
           reported |-> FALSE, after |-> <<>>]

(***************************************************************************)
(* solve_remote.brute_force_seed and test_local.brute_force_seed (the same  *)
(* code): "for seed in range(max_seed)", max_seed being args.end.            *)
(***************************************************************************)
InitBruteForceSeed ==
    \E i1 \in Indices, i2 \in Indices, hi \in 0..(MaxSeed + 1) :
        \E o \in OriginsFor(i1, i2) :
            /\ prog = "brute_force_seed"
            /\ pc = "bfs"
            /\ origin = o
            /\ args = MakeArgs(o, i1, i2, 0, hi)
            /\ loc = NoLocals
            /\ ret = None
            /\ sent = <<>>
            /\ msg = ""
            /\ pool = NoPool
            /\ rng = NoRng

\* where a routine goes on after brute_force_seed returns
AfterBfs == IF prog = "simulate_challenge" THEN "sim_solved" ELSE "done"

\* BfsIter stepping over the candidate that follows a rejected one
BfsIterSkips ==
    /\ pc = "bfs"
    /\ loc.seed < args.end
    /\ IF InlineMatch(loc.seed, args.idx1, args.idx2, args.val1, args.val2)
       THEN /\ ret' = loc.seed
            /\ pc' = AfterBfs
            /\ loc' = loc
       ELSE /\ loc' = [loc EXCEPT !.seed = loc.seed + 2]
            /\ UNCHANGED <<ret, pc>>
    /\ UNCHANGED <<prog, args, origin, sent, msg, pool, rng>>

\* one iteration of the loop: the candidate loc.seed is replayed
BfsIter ==
    /\ pc = "bfs"
    /\ loc.seed < args.end
    /\ IF InlineMatch(loc.seed, args.idx1, args.idx2, args.val1, args.val2)
       THEN /\ ret' = loc.seed
            /\ pc' = AfterBfs
            /\ loc' = loc
       ELSE /\ loc' = [loc EXCEPT !.seed = loc.seed + 1]
            /\ UNCHANGED <<ret, pc>>
    /\ UNCHANGED <<prog, args, origin, sent, msg, pool, rng>>

\* BfsExhaust returning the last candidate instead of None
BfsExhaustReturnsSeed ==
    /\ pc = "bfs"
    /\ loc.seed >= args.end
    /\ ret' = loc.seed - 1
    /\ pc' = AfterBfs
    /\ UNCHANGED <<prog, args, loc, origin, sent, msg, pool, rng>>

\* the range is exhausted: "return None"
BfsExhaust ==
    /\ pc = "bfs"
    /\ loc.seed >= args.end
    /\ ret' = None
    /\ pc' = AfterBfs
    /\ UNCHANGED <<prog, args, loc, origin, sent, msg, pool, rng>>

(***************************************************************************)
(* test_local.simulate_challenge: a hidden seed, the draws 0 and 1 revealed, *)
(* brute_force_seed(0, 1, val1, val2, max_seed=2000000), predict_2020th.    *)
(***************************************************************************)
\* the challenge draws RevealedDraws numbers, then the target
RevealedDraws == 2019

\* target_2020: the draw after the RevealedDraws first ones
ChallengeTarget(actual_seed) == PyTable[actual_seed][RevealedDraws + 1]

InitSimulateChallenge ==
    \E actual_seed \in 0..SimHi :
        /\ prog = "simulate_challenge"
        /\ pc = "bfs"
        /\ origin = [gen |-> "py", sa |-> actual_seed, sb |-> actual_seed]
        /\ args = MakeArgs(origin, 0, 1, 0, 2 * SimHi)
        /\ loc = [NoLocals EXCEPT !.target = ChallengeTarget(actual_seed)]
        /\ ret = None
        /\ sent = <<>>
        /\ msg = ""
        /\ pool = NoPool
        /\ rng = NoRng

\* lines 86-106: the outcome once brute_force_seed has returned found_seed
SimFinish ==
    /\ prog = "simulate_challenge"
    /\ pc = "sim_solved"
    /\ IF ret = None
       THEN /\ msg' = "Failed to find seed!"
            /\ loc' = loc
       ELSE /\ loc' = [loc EXCEPT !.prediction = predict_2020th(ret)]
            /\ msg' = IF loc'.prediction = loc.target THEN "SUCCESS" ELSE "FAILED"
    /\ pc' = "done"
    /\ UNCHANGED <<prog, args, ret, origin, sent, pool, rng>>

(***************************************************************************)
(* fast_solve.brute_force_optimized(idx1, idx2, val1, val2, start, end).    *)
(***************************************************************************)
\* stand-in for "chunk = 1000000"
chunk == 2

InitBruteForceOptimized ==
    \E i1 \in Indices, i2 \in Indices,
       lo \in 0..(MaxSeed + 1), hi \in 0..(MaxSeed + 1) :
        \E o \in OriginsFor(i1, i2) :
            /\ prog = "brute_force_optimized"
            /\ pc = "bfo_outer"
            /\ origin = o
            /\ args = MakeArgs(o, i1, i2, lo, hi)
            /\ loc = [NoLocals EXCEPT !.base = lo]
            /\ ret = None
            /\ sent = <<>>
            /\ msg = ""
            /\ pool = NoPool
            /\ rng = NoRng

\* where a routine goes on after brute_force_optimized returns
AfterBfo == IF prog = "fast_solve_remote" THEN "fs_back" ELSE "done"

\* "for base in range(start, end, chunk)": the next chunk is entered
BfoChunk ==
    /\ pc = "bfo_outer"
    /\ loc.base < args.end
    /\ loc' = [loc EXCEPT !.limit = Min(loc.base + chunk, args.end),
                          !.seed = loc.base]
    /\ pc' = "bfo_inner"
    /\ UNCHANGED <<prog, args, ret, origin, sent, msg, pool, rng>>

\* the outer loop is over: "return None"
BfoExhaust ==
    /\ pc = "bfo_outer"
    /\ loc.base >= args.end
    /\ ret' = None
    /\ pc' = AfterBfo
    /\ UNCHANGED <<prog, args, loc, origin, sent, msg, pool, rng>>

\* "for seed in range(base, limit)": one candidate is checked
BfoIter ==
    /\ pc = "bfo_inner"
    /\ loc.seed < loc.limit
    /\ IF check_seed_fast(loc.seed, args.idx1, args.idx2, args.val1, args.val2)
       THEN /\ ret' = loc.seed
            /\ pc' = AfterBfo
            /\ loc' = Counting(loc, loc.seed)
       ELSE /\ loc' = [Counting(loc, loc.seed) EXCEPT !.seed = loc.seed + 1]
            /\ UNCHANGED <<ret, pc>>
    /\ UNCHANGED <<prog, args, origin, sent, msg, pool, rng>>

\* BfoChunkEnd stepping over the seed at the chunk boundary
BfoChunkEndSkips ==
    /\ pc = "bfo_inner"
    /\ loc.seed >= loc.limit
    /\ loc' = [loc EXCEPT !.base = loc.base + chunk + 1]
    /\ pc' = "bfo_outer"
    /\ UNCHANGED <<prog, args, ret, origin, sent, msg, pool, rng>>

\* the chunk is over: on to the next base
BfoChunkEnd ==
    /\ pc = "bfo_inner"
    /\ loc.seed >= loc.limit
    /\ loc' = [loc EXCEPT !.base = loc.base + chunk]
    /\ pc' = "bfo_outer"
    /\ UNCHANGED <<prog, args, ret, origin, sent, msg, pool, rng>>

(***************************************************************************)
(* fast_solve.solve_remote: indices 0 and 1, the two revealed values, then  *)
(* brute_force_optimized over [0, 50000000) and, without a seed, over       *)
(* [50000000, 2**31); the prediction of a seed found is sent.               *)
(***************************************************************************)
\* stand-in for 50000000
FirstRangeEnd == 2
\* stand-in for 2**31
SecondRangeEnd == MaxSeed + 1

InitFastSolveRemote ==
    \E o \in Origins :
        /\ prog = "fast_solve_remote"
        /\ pc = "bfo_outer"
        /\ origin = o
        /\ args = MakeArgs(o, 0, 1, 0, FirstRangeEnd)
        /\ loc = [NoLocals EXCEPT !.stage = 1]
        /\ ret = None
        /\ sent = <<>>
        /\ msg = ""
        /\ pool = NoPool
        /\ rng = NoRng

\* lines 132-135: no seed in the first range, the second call
FsSecondRange ==
    /\ pc = "fs_back"
    /\ loc.stage = 1
    /\ ret = None
    /\ args' = [args EXCEPT !.start = FirstRangeEnd, !.end = SecondRangeEnd]
    /\ loc' = [loc EXCEPT !.stage = 2, !.base = FirstRangeEnd]
    /\ pc' = "bfo_outer"
    /\ UNCHANGED <<prog, ret, origin, sent, msg, pool, rng>>

\* lines 137-148: random.seed(seed), 2020 draws, s.sendall(prediction)
FsSend ==
    /\ pc = "fs_back"
    /\ ret # None
    /\ loc' = [loc EXCEPT !.prediction = predict_2020th(ret)]
    /\ sent' = Append(sent, loc'.prediction)
    /\ msg' = "FOUND SEED"
    /\ pc' = "done"
    /\ UNCHANGED <<prog, args, ret, origin, pool, rng>>

\* lines 155-156
FsGiveUp ==
    /\ pc = "fs_back"
    /\ loc.stage = 2
    /\ ret = None
    /\ msg' = "Could not find seed!"
    /\ pc' = "done"
    /\ UNCHANGED <<prog, args, loc, ret, origin, sent, pool, rng>>

(***************************************************************************)
(* solve.solve_with_z3(idx1, idx2, val1, val2, seed_min, seed_max).  The    *)
(* range bounds are Python integers, kept as pairs <<q, r>> of value        *)
(* q * 65536 + r so that 2**32 can be written.                              *)
(***************************************************************************)
PyInt(n) == <<n \div H, n % H>>
\* 2**32, the default seed_max
TwoTo32 == <<H, 0>>

\* the 32-bit bit-vector a Python integer is turned into when it is compared
\* with the bit-vector seed: its value modulo 2^32
BitVecVal(p) == W(p[1] % H, p[2])

\* unsigned comparisons of 32-bit bit-vectors
ULT(a, b) == a[1] < b[1] \/ (a[1] = b[1] /\ a[2] < b[2])
UGE(a, b) == ~ULT(a, b)

\* the constraints added to the solver hold for seed sd (lines 46-47, 51-55
\* and 61-64)
Z3Sat(sd, a) ==
    /\ UGE(Word(sd), BitVecVal(a.start))
    /\ ULT(Word(sd), BitVecVal(a.end))
    /\ SymTable[sd][a.idx1 + 1] = a.val1
    /\ SymTable[sd][a.idx2 + 1] = a.val2

\* the seeds the solver may report: the candidates are the seeds of SeedDomain
Z3Models(a) == {sd \in SeedDomain : Z3Sat(sd, a)}

Z3Ranges ==
    {<<PyInt(lo), hi>> : lo \in 0..1,
                        hi \in {PyInt(k) : k \in 0..(MaxSeed + 1)} \cup {TwoTo32}}

InitSolveWithZ3 ==
    \E i1 \in Indices, i2 \in Indices, rg \in Z3Ranges :
        \E o \in OriginsFor(i1, i2) :
            /\ prog = "solve_with_z3"
            /\ pc = "z3"
            /\ origin = o
            /\ args = MakeArgs(o, i1, i2, rg[1], rg[2])
            /\ loc = NoLocals
            /\ ret = None
            /\ sent = <<>>
            /\ msg = ""
            /\ pool = NoPool
            /\ rng = NoRng

\* where a routine goes on after solve_with_z3 returns
AfterZ3 == IF prog = "solve_main" THEN "main_back" ELSE "done"

\* lines 75-77: an index of 624 or more
Z3Unsupported ==
    /\ pc = "z3"
    /\ ~(Max(args.idx1, args.idx2) < N)
    /\ ret' = None
    /\ msg' = "Indices too large for simple symbolic execution"
    /\ pc' = AfterZ3
    /\ UNCHANGED <<prog, args, loc, origin, sent, pool, rng>>

\* lines 67-71: solver.check() == sat, the seed of some model is returned
Z3Found ==
    /\ pc = "z3"
    /\ Max(args.idx1, args.idx2) < N
    /\ \E sd \in Z3Models(args) : ret' = sd
    /\ msg' = "Found seed"
    /\ pc' = AfterZ3
    /\ UNCHANGED <<prog, args, loc, origin, sent, pool, rng>>

\* lines 72-74: no model
Z3Unsat ==
    /\ pc = "z3"
    /\ Max(args.idx1, args.idx2) < N
    /\ Z3Models(args) = {}
    /\ ret' = None
    /\ msg' = "No solution found"
    /\ pc' = AfterZ3
    /\ UNCHANGED <<prog, args, loc, origin, sent, pool, rng>>

(***************************************************************************)
(* solve.main: the indices and values typed in, solve_with_z3 over          *)
(* [0, 2**20) and, without a seed, over [0, 2**32); the prediction of a     *)
(* seed found is printed.                                                   *)
(***************************************************************************)
\* stand-in for 2**20
SmallSeedMax == MaxSeed + 1

InitSolveMain ==
    \E i1 \in Indices, i2 \in Indices :
        \E o \in OriginsFor(i1, i2) :
            /\ prog = "solve_main"
            /\ pc = "main"
            /\ origin = o
            /\ args = MakeArgs(o, i1, i2, PyInt(0), PyInt(SmallSeedMax))
            /\ loc = [NoLocals EXCEPT !.stage = 1]
            /\ ret = None
            /\ sent = <<>>
            /\ msg = ""
            /\ pool = NoPool
            /\ rng = NoRng

\* lines 107-108: the first call
MainCall ==
    /\ pc = "main"
    /\ Max(args.idx1, args.idx2) < N
    /\ pc' = "z3"
    /\ UNCHANGED <<prog, args, loc, ret, origin, sent, msg, pool, rng>>

\* lines 121-122
MainReject ==
    /\ pc = "main"
    /\ ~(Max(args.idx1, args.idx2) < N)
    /\ msg' = "Indices too large. Try indices < 624"
    /\ pc' = "done"
    /\ UNCHANGED <<prog, args, loc, ret, origin, sent, pool, rng>>

\* lines 110-112: "Trying larger seed range..."
MainRetry ==
    /\ pc = "main_back"
    /\ loc.stage = 1
    /\ ret = None
    /\ args' = [args EXCEPT !.end = TwoTo32]
    /\ loc' = [loc EXCEPT !.stage = 2]
    /\ pc' = "z3"
    /\ UNCHANGED <<prog, ret, origin, sent, msg, pool, rng>>

\* lines 114-116: the prediction of the seed is printed
MainPredict ==
    /\ pc = "main_back"
    /\ ret # None
    /\ loc' = [loc EXCEPT !.prediction = predict_2020th(ret)]
    /\ msg' = "Prediction for 2020th number"
    /\ pc' = "done"
    /\ UNCHANGED <<prog, args, ret, origin, sent, pool, rng>>

\* lines 119-120
MainGiveUp ==
    /\ pc = "main_back"
    /\ loc.stage = 2
    /\ ret = None
    /\ msg' = "Could not recover seed"
    /\ pc' = "done"
    /\ UNCHANGED <<prog, args, loc, ret, origin, sent, pool, rng>>

(***************************************************************************)
(* solve_remote.brute_force_seed_parallel(idx1, idx2, val1, val2, start,    *)
(* end): Pool(processes=cpu_count()) and imap_unordered(check_seed_match,   *)
(* args_list, chunksize=chunk_size).  The list is cut into chunks of        *)
(* chunk_size consecutive seeds; a worker takes the next chunk, evaluates   *)
(* all of it and only then puts the list of its results on the result       *)
(* queue; the caller reads the lists in the order they were put and their   *)
(* items in order, and at the first item that is not None calls             *)
(* pool.terminate() and returns it.                                         *)
(***************************************************************************)
\* stand-in for "chunk_size = 10000"
chunk_size == 2
\* cpu_count() of a machine with two processors
cpu_count == 2

Workers == 1..cpu_count

\* the chunks of range(lo, hi), in order
TaskBatches(lo, hi) ==
    [k \in 1..(IF hi > lo THEN (hi - lo + chunk_size - 1) \div chunk_size ELSE 0) |->
        [j \in 1..Min(chunk_size, hi - lo - (k - 1) * chunk_size) |->
            lo + (k - 1) * chunk_size + (j - 1)]]

InitBruteForceSeedParallel ==
    \E i1 \in Indices, i2 \in Indices, lo \in 0..1, hi \in 0..(MaxSeed + 1) :
        \E o \in {q \in OriginsFor(i1, i2) : q.gen = "py"} :
            /\ prog = "brute_force_seed_parallel"
            /\ pc = "pool"
            /\ origin = o
            /\ args = MakeArgs(o, i1, i2, lo, hi)
            /\ loc = NoLocals
            /\ ret = None
            /\ sent = <<>>
            /\ msg = ""
            /\ pool = [taskq |-> TaskBatches(lo, hi),
                       wk |-> [w \in Workers |->
                                 [st |-> "idle", chunk |-> <<>>, res |-> <<>>]],
                       outq |-> <<>>,
                       cur |-> <<>>,
                       first |-> None,
                       reported |-> FALSE,
                       after |-> [w \in Workers |-> 0]]
            /\ rng = NoRng

\* an idle worker takes the next chunk
PoolTake(w) ==
    /\ pc = "pool"
    /\ pool.wk[w].st = "idle"
    /\ pool.taskq # <<>>
    /\ pool' = [pool EXCEPT !.taskq = Tail(pool.taskq),
                            !.wk[w] = [st |-> "busy", chunk |-> Head(pool.taskq),
                                       res |-> <<>>]]
    /\ UNCHANGED <<prog, pc, args, loc, ret, origin, sent, msg, rng>>

\* a worker evaluates the next seed of its chunk with check_seed_match;
\* pool.after counts the evaluations it starts once a list holding a seed
\* has been put on the result queue
PoolEval(w) ==
    /\ pc = "pool"
    /\ pool.wk[w].st = "busy"
    /\ Len(pool.wk[w].res) < Len(pool.wk[w].chunk)
    /\ pool' = [pool EXCEPT
                  !.wk[w].res = Append(pool.wk[w].res,
                      check_seed_match(pool.wk[w].chunk[Len(pool.wk[w].res) + 1],
                                       args.idx1, args.idx2, args.val1, args.val2)),
                  !.after[w] = pool.after[w] + (IF pool.reported THEN 1 ELSE 0)]
    /\ loc' = Counting(loc, pool.wk[w].chunk[Len(pool.wk[w].res) + 1])
    /\ UNCHANGED <<prog, pc, args, ret, origin, sent, msg, rng>>

\* the first seed of a list of results, None when it holds none
RECURSIVE FirstSeed(_)
FirstSeed(res) ==
    IF res = <<>> THEN None
    ELSE IF Head(res) # None THEN Head(res) ELSE FirstSeed(Tail(res))

\* a worker has evaluated its whole chunk and puts the list of results;
\* pool.first keeps the first seed ever put on the result queue
PoolPut(w) ==
    /\ pc = "pool"
    /\ pool.wk[w].st = "busy"
    /\ Len(pool.wk[w].res) = Len(pool.wk[w].chunk)
    /\ pool' = [pool EXCEPT
                  !.outq = Append(pool.outq, pool.wk[w].res),
                  !.wk[w] = [st |-> "idle", chunk |-> <<>>, res |-> <<>>],
                  !.first = IF pool.reported THEN pool.first
                            ELSE FirstSeed(pool.wk[w].res),
                  !.reported = pool.reported
                               \/ \E j \in 1..Len(pool.wk[w].res) :
                                      pool.wk[w].res[j] # None]
    /\ UNCHANGED <<prog, pc, args, loc, ret, origin, sent, msg, rng>>

\* the caller's iterator moves on to the next list of results
CallerNextChunk ==
    /\ pc = "pool"
    /\ pool.cur = <<>>
    /\ pool.outq # <<>>
    /\ pool' = [pool EXCEPT !.cur = Head(pool.outq), !.outq = Tail(pool.outq)]
    /\ UNCHANGED <<prog, pc, args, loc, ret, origin, sent, msg, rng>>

\* line 34, "result is not None" false: the next item
CallerItemNone ==
    /\ pc = "pool"
    /\ pool.cur # <<>>
    /\ Head(pool.cur) = None
    /\ pool' = [pool EXCEPT !.cur = Tail(pool.cur)]
    /\ UNCHANGED <<prog, pc, args, loc, ret, origin, sent, msg, rng>>

\* lines 34-36: pool.terminate() and "return result"
CallerItemFound ==
    /\ pc = "pool"
    /\ pool.cur # <<>>
    /\ Head(pool.cur) # None
    /\ ret' = Head(pool.cur)
    /\ pool' = [pool EXCEPT
                  !.wk = [w \in Workers |-> [pool.wk[w] EXCEPT !.st = "dead"]]]
    /\ pc' = "done"
    /\ UNCHANGED <<prog, args, loc, origin, sent, msg, rng>>

\* line 38: every list of results has been read, "return None"
CallerExhausted ==
    /\ pc = "pool"
    /\ pool.cur = <<>>
    /\ pool.outq = <<>>
    /\ pool.taskq = <<>>
    /\ \A w \in Workers : pool.wk[w].st = "idle"
    /\ ret' = None
    /\ pool' = [pool EXCEPT
                  !.wk = [w \in Workers |-> [pool.wk[w] EXCEPT !.st = "dead"]]]
    /\ pc' = "done"
    /\ UNCHANGED <<prog, args, loc, origin, sent, msg, rng>>

(***************************************************************************)
(* simple_solve.brute_force_seed(idx1, idx2, val1, val2, max_seed): three   *)
(* strategies in turn.  loc.stage is the strategy, loc.limit the loop       *)
(* variable (the seed, or the offset of strategy 2), loc.base current_time, *)
(* loc.seed the last candidate handed to check_seed (None before the first).*)
(***************************************************************************)
\* stand-in for the 1000000 of "for seed in range(1000000)"
SmallSeeds == 2
\* stand-in for the 3600 of "for offset in range(-3600, 3600)"
TimeWindow == 1

InitSimpleBruteForceSeed ==
    \E i1 \in Indices, i2 \in Indices, hi \in 0..(MaxSeed + 1),
       now \in TimeWindow..(MaxSeed + 1 - TimeWindow) :
        \E o \in {q \in OriginsFor(i1, i2) : q.gen = "py"} :
            /\ prog = "simple_brute_force_seed"
            /\ pc = "sbf"
            /\ origin = o
            /\ args = MakeArgs(o, i1, i2, 0, hi)
            /\ loc = [NoLocals EXCEPT !.stage = 1, !.limit = 0, !.base = now,
                                      !.seed = None]
            /\ ret = None
            /\ sent = <<>>
            /\ msg = ""
            /\ pool = NoPool
            /\ rng = NoRng

\* "if check_seed(seed, ...): return seed" on candidate cand, else the loop
\* variable moves on
SbfTry(cand) ==
    /\ IF check_seed(cand, args.idx1, args.idx2, args.val1, args.val2)
       THEN /\ ret' = cand
            /\ pc' = "done"
            /\ loc' = [loc EXCEPT !.seed = cand]
       ELSE /\ loc' = [loc EXCEPT !.seed = cand, !.limit = loc.limit + 1]
            /\ UNCHANGED <<ret, pc>>
    /\ UNCHANGED <<prog, args, origin, sent, msg, pool, rng>>

\* lines 28-33: strategy 1, "for seed in range(1000000)"
SbfSmall ==
    /\ pc = "sbf"
    /\ loc.stage = 1
    /\ loc.limit < SmallSeeds
    /\ SbfTry(loc.limit)

\* lines 36-38: strategy 1 is exhausted, current_time is read
SbfSmallEnd ==
    /\ pc = "sbf"
    /\ loc.stage = 1
    /\ loc.limit >= SmallSeeds
    /\ loc' = [loc EXCEPT !.stage = 2, !.limit = 0 - TimeWindow]
    /\ UNCHANGED <<prog, pc, args, ret, origin, sent, msg, pool, rng>>

\* lines 38-42: strategy 2, "seed = current_time + offset"
SbfTime ==
    /\ pc = "sbf"
    /\ loc.stage = 2
    /\ loc.limit < TimeWindow
    /\ SbfTry(loc.base + loc.limit)

\* lines 45-46: strategy 2 is exhausted
SbfTimeEnd ==
    /\ pc = "sbf"
    /\ loc.stage = 2
    /\ loc.limit >= TimeWindow
    /\ loc' = [loc EXCEPT !.stage = 3, !.limit = 0]
    /\ UNCHANGED <<prog, pc, args, ret, origin, sent, msg, pool, rng>>

\* lines 46-51: strategy 3, "for seed in range(max_seed)"
SbfFull ==
    /\ pc = "sbf"
    /\ loc.stage = 3
    /\ loc.limit < args.end
    /\ SbfTry(loc.limit)

\* line 53: "return None"
SbfExhaust ==
    /\ pc = "sbf"
    /\ loc.stage = 3
    /\ loc.limit >= args.end
    /\ ret' = None
    /\ pc' = "done"
    /\ UNCHANGED <<prog, args, loc, origin, sent, msg, pool, rng>>

(***************************************************************************)
(* Calls of simple_solve.check_seed and predict_2020th on the generator of  *)
(* the random module, which all calls share: rng is its state, which a call *)
(* that returns early leaves in the middle of a sequence.  loc.stage counts *)
(* the calls made, loc.seed is the candidate of the last call and ret its   *)
(* result (the candidate when check_seed returned True, else None).         *)
(***************************************************************************)
\* the number of check_seed calls a run makes
MaxCalls == 2

\* the generator state of g as the value of rng: the N words and the cursor
GenState(g) ==
    [mt |-> [i \in DOMAIN g.mt |-> <<g.mt[i][1], g.mt[i][2]>>], index |-> g.index]

\* the call of random.seed left out: the generator stays as it was
ReseedKeeps(g, seed) == g

\* "random.seed(seed)" on the shared generator in state g
Reseed(g, seed) == SeededState[seed]

\* generator state g after n draws, with the draws
AdvanceFrom(st) ==
    IF st.n <= 10 THEN Rep10(DrawStep, st) ELSE Rep10000(DrawStep, st)

Advance(g, n) ==
    AdvanceFrom([mt |-> g.mt, index |-> g.index, out |-> <<>>, n |-> n])

\* "if i == idx1 and r != val1" or "if i == idx2 and r != val2"
Miss(i, r, a) == (i = a.idx1 /\ r # a.val1) \/ (i = a.idx2 /\ r # a.val2)

\* the loop of check_seed after draw d of iteration st.i: "return False" on a
\* mismatch, else the next iteration, "return True" after the last
Checked(st, d, a) ==
    [mt |-> d.mt, index |-> d.index, i |-> st.i + 1,
     ok |-> ~Miss(st.i, d.r, a),
     live |-> ~Miss(st.i, d.r, a) /\ st.i + 1 <= Max(a.idx1, a.idx2)]

\* one iteration of "for i in range(max(idx1, idx2) + 1)"
CheckStep(st, a) ==
    IF ~st.live THEN st ELSE Checked(st, genrand_int32(st.mt, st.index), a)

\* the loop, from its first iteration
CheckLoop(st, a) ==
    IF Max(a.idx1, a.idx2) < 10 THEN Rep10(LAMBDA t : CheckStep(t, a), st)
    ELSE Rep1000(LAMBDA t : CheckStep(t, a), st)

\* check_seed on the shared generator in state g: the generator the call
\* leaves and the value it returns
CheckSeedFrom(g, a) ==
    CheckLoop([mt |-> g.mt, index |-> g.index, i |-> 0, ok |-> TRUE, live |-> TRUE], a)

CheckSeedRun(g, seed, a) == CheckSeedFrom(Reseed(g, seed), a)

InitCheckSeedCalls ==
    \E sd \in {0, MaxSeed} :
        \E o \in {q \in Origins : q.gen = "py" /\ q.sa \in {0, MaxSeed}} :
            /\ prog = "check_seed_calls"
            /\ pc = "calls"
            /\ origin = o
            /\ args = MakeArgs(o, 0, 1, 0, MaxSeed + 1)
            /\ loc = NoLocals
            /\ ret = None
            /\ sent = <<>>
            /\ msg = ""
            /\ pool = NoPool
            /\ rng = GenState(SeededState[sd])

\* what a call of check_seed on candidate cand leaves
CallDone(cand, run) ==
    /\ rng' = GenState(run)
    /\ ret' = IF run.ok THEN cand ELSE None
    /\ loc' = [loc EXCEPT !.seed = cand, !.stage = loc.stage + 1]
    /\ UNCHANGED <<prog, pc, args, origin, sent, msg, pool>>

\* one call check_seed(cand, idx1, idx2, val1, val2)
CallCheckSeed ==
    /\ pc = "calls"
    /\ loc.stage < MaxCalls
    /\ \E cand \in SeedDomain :
          CallDone(cand, CheckSeedRun(rng, cand, args))

\* predict_2020th(seed) on the shared generator in state g
PredictRun(g, seed) == Advance(Reseed(g, seed), TargetDraws)

\* what predict_2020th leaves
PredictDone(run) ==
    /\ rng' = GenState(run)
    /\ loc' = [loc EXCEPT !.prediction = run.out[TargetDraws]]
    /\ pc' = "done"
    /\ UNCHANGED <<prog, args, ret, origin, sent, msg, pool>>

\* predict_2020th of the candidate the last call accepted
CallPredict ==
    /\ pc = "calls"
    /\ loc.stage > 0
    /\ ret # None
    /\ PredictDone(PredictRun(rng, ret))

(***************************************************************************)
(* A replay with fast_solve.genrand_int32 up to a chosen draw: loc.seed is  *)
(* the seed, loc.limit the index of the draw, loc.target the draw.          *)
(***************************************************************************)
\* the draws looked at: the first, those on both sides of each twist, the last
SpanIndices == {0, N - 1, N, TwistSpan - 1}

InitReplay ==
    \E sd \in SeedDomain, j \in SpanIndices :
        \E o \in {q \in Origins : q.gen = "fast" /\ q.sa = sd /\ q.sb = sd} :
            /\ prog = "replay"
            /\ pc = "replay"
            /\ origin = o
            /\ args = MakeArgs(o, 0, 1, 0, MaxSeed + 1)
            /\ loc = [NoLocals EXCEPT !.seed = sd, !.limit = j]
            /\ ret = None
            /\ sent = <<>>
            /\ msg = ""
            /\ pool = NoPool
            /\ rng = NoRng

\* mt = init_genrand(seed); index = N; loc.limit + 1 calls of genrand_int32
ReplayDraw ==
    /\ pc = "replay"
    /\ loc' = [loc EXCEPT !.target = FastTable[loc.seed][loc.limit + 1]]
    /\ pc' = "done"
    /\ UNCHANGED <<prog, args, ret, origin, sent, msg, pool, rng>>

(***************************************************************************)
(* The generator of check_seed_fast followed draw by draw: rng is the list  *)
(* mt and the cursor index, loc.limit the number of draws made, loc.base    *)
(* the index of the word the last draw read.                                *)
(***************************************************************************)
\* the draws followed: past the second twist
DrawLimit == TwistSpan + 1

\* "mt = init_genrand(seed)", "index = N"
InitGenerator ==
    \E sd \in {0, MaxSeed} :
        \E o \in {q \in Origins : q.gen = "fast" /\ q.sa = sd /\ q.sb = sd} :
            /\ prog = "generator"
            /\ pc = "draw"
            /\ origin = o
            /\ args = MakeArgs(o, 0, 1, 0, MaxSeed + 1)
            /\ loc = [NoLocals EXCEPT !.seed = sd]
            /\ ret = None
            /\ sent = <<>>
            /\ msg = ""
            /\ pool = NoPool
            /\ rng = GenState([mt |-> InitTable[sd], index |-> N])

\* what "r, index = genrand_int32(mt, index)" leaves, d being what the call
\* returns
DrawDone(d) ==
    /\ rng' = GenState(d)
    /\ loc' = [loc EXCEPT !.limit = loc.limit + 1, !.base = d.index - 1,
                          !.target = d.r]
    /\ UNCHANGED <<prog, pc, args, ret, origin, sent, msg, pool>>

\* one iteration of the loop of check_seed_fast
GeneratorDraw ==
    /\ pc = "draw"
    /\ loc.limit < DrawLimit
    /\ DrawDone(genrand_int32(rng.mt, rng.index))

Init ==
    \/ InitBruteForceSeed
    \/ InitSimulateChallenge
    \/ InitBruteForceOptimized
    \/ InitFastSolveRemote
    \/ InitSolveWithZ3
    \/ InitSolveMain
    \/ InitBruteForceSeedParallel
    \/ InitSimpleBruteForceSeed
    \/ InitCheckSeedCalls
    \/ InitReplay
    \/ InitGenerator

Next ==
    \/ BfsIter
    \/ BfsExhaust
    \/ SimFinish
    \/ BfoChunk
    \/ BfoExhaust
    \/ BfoIter
    \/ BfoChunkEnd
    \/ FsSecondRange
    \/ FsSend
    \/ FsGiveUp
    \/ Z3Unsupported
    \/ Z3Found
    \/ Z3Unsat
    \/ MainCall
    \/ MainReject
    \/ MainRetry
    \/ MainPredict
    \/ MainGiveUp
    \/ \E w \in Workers : PoolTake(w)
    \/ \E w \in Workers : PoolEval(w)
    \/ \E w \in Workers : PoolPut(w)
    \/ CallerNextChunk
    \/ CallerItemNone
    \/ CallerItemFound
    \/ CallerExhausted
    \/ SbfSmall
    \/ SbfSmallEnd
    \/ SbfTime
    \/ SbfTimeEnd
    \/ SbfFull
    \/ SbfExhaust
    \/ CallCheckSeed
    \/ CallPredict
    \/ ReplayDraw
    \/ GeneratorDraw

Spec == Init /\ [][Next]_vars

(***************************************************************************)
(* Properties.                                                              *)
(***************************************************************************)
\* the draws of seed sd under the generator the running routine replays
ReplayOf(sd) ==
    IF prog \in {"brute_force_optimized", "fast_solve_remote"}
    THEN FastTable[sd] ELSE PyTable[sd]

\* seed sd reproduces both observed values at their indices
Reproduces(sd) ==
    /\ ReplayOf(sd)[args.idx1 + 1] = args.val1
    /\ ReplayOf(sd)[args.idx2 + 1] = args.val2

\* the observed values are the draws of one seed under generator gen
ObservedFrom(gen) == origin.gen = gen /\ origin.sa = origin.sb

SingleThreaded == prog \in {"brute_force_seed", "brute_force_optimized"}

C3_Recoverability ==
    (/\ prog = "brute_force_seed"
     /\ pc = "done"
     /\ ObservedFrom("py")
     /\ args.idx1 # args.idx2
     /\ args.idx1 < N
     /\ args.idx2 < N
     /\ origin.sa \in 0..(args.end - 1)) =>
        /\ ret # None
        /\ check_seed(ret, args.idx1, args.idx2, args.val1, args.val2)

\* the last seed of the range was the one to recover
C3_Witness ==
    /\ prog = "brute_force_seed"
    /\ pc = "done"
    /\ ObservedFrom("py")
    /\ args.idx1 = 1
    /\ args.idx2 = 0
    /\ origin.sa = args.end - 1
    /\ origin.sa > 0
    /\ ret = origin.sa

\* C4: simulate_challenge ends with the hidden seed recovered and with the
\* prediction equal to the target, the 2020th number of the hidden seed.
C4_RoundTrip ==
    (prog = "simulate_challenge" /\ pc = "done") =>
        /\ ret = origin.sa
        /\ loc.prediction = loc.target
        /\ loc.target = PyTable[origin.sa][RevealedDraws + 1]
        /\ msg = "SUCCESS"

\* the largest hidden seed was recovered after the lower ones were rejected
C4_Witness ==
    /\ prog = "simulate_challenge"
    /\ pc = "done"
    /\ origin.sa = SimHi
    /\ ret = SimHi
    /\ msg = "SUCCESS"

\* C5: a prediction is sent (fast_solve.solve_remote) or printed (solve.main)
\* only for a seed whose replay through the generator of predict_2020th, the
\* library generator, gives every observed value.
C5_FailClosed ==
    (sent # <<>> \/ msg = "Prediction for 2020th number") =>
        check_seed(ret, args.idx1, args.idx2, args.val1, args.val2)

\* C6: solve_with_z3 never reports an index of 624 or more with the value it
\* returns for an unsatisfiable query, None.
C6_DistinctOutcomes ==
    (/\ prog = "solve_with_z3"
     /\ pc = "done"
     /\ Max(args.idx1, args.idx2) >= N) => ret # None

\* C7: for the seed solve_with_z3 returns, the output it constrains at each
\* observed index is the draw of the Generator Model (init_genrand, a twist
\* before the first draw, temper) at that index, and the replay of the seed
\* gives both observed values.
C7_EncodesGeneratorModel ==
    (prog = "solve_with_z3" /\ pc = "done" /\ ret # None) =>
        /\ SymTable[ret][args.idx1 + 1] = FastTable[ret][args.idx1 + 1]
        /\ SymTable[ret][args.idx2 + 1] = FastTable[ret][args.idx2 + 1]
        /\ check_seed_fast(ret, args.idx1, args.idx2, args.val1, args.val2)

\* C8: under every interleaving of the pool, a seed returned by
\* brute_force_seed_parallel lies in [start, end) and reproduces both
\* observed values, and None is returned only when no seed of [start, end)
\* reproduces both.
C8_SomeMatchInRange ==
    (prog = "brute_force_seed_parallel" /\ pc = "done") =>
        /\ ret # None => (ret \in args.start..(args.end - 1) /\ Reproduces(ret))
        /\ ret = None => \A sd \in args.start..(args.end - 1) : ~Reproduces(sd)

\* a seed was returned while a sibling worker was in the middle of its chunk
C8_Witness ==
    /\ prog = "brute_force_seed_parallel"
    /\ pc = "done"
    /\ ret # None
    /\ \E w \in Workers :
          /\ pool.wk[w].st = "dead"
          /\ pool.wk[w].res # <<>>
          /\ Len(pool.wk[w].res) < Len(pool.wk[w].chunk)

\* C9: once a worker has reported a seed, every worker starts at most one
\* more evaluation, and the seed returned is the first one reported.
C9_FirstMatchCancellation ==
    prog = "brute_force_seed_parallel" =>
        /\ \A w \in Workers : pool.after[w] <= 1
        /\ (pc = "done" /\ ret # None) => ret = pool.first

\* C10: a search over an invalid range (start >= end) does not return None,
\* the value returned when a valid range is exhausted without a match.
C10_InvalidRangeDistinct ==
    (/\ prog \in {"brute_force_optimized", "brute_force_seed_parallel"}
     /\ pc = "done"
     /\ args.start >= args.end) => ret # None

\* C11: every candidate simple_solve.brute_force_seed hands to check_seed and
\* every seed it returns lies in [0, max_seed), in each of its three
\* strategies.
C11_RangeBoundsSearch ==
    prog = "simple_brute_force_seed" =>
        /\ loc.seed # None => loc.seed \in 0..(args.end - 1)
        /\ (pc = "done" /\ ret # None) => ret \in 0..(args.end - 1)

\* C12: whatever calls came before and wherever they left the shared
\* generator, check_seed on a candidate returns what a replay of the
\* candidate from a fresh generator gives, and predict_2020th returns draw
\* number 2020 of such a replay.
C12_FreshPerCandidate ==
    (prog = "check_seed_calls" /\ loc.stage > 0) =>
        /\ (ret # None) = check_seed(loc.seed, args.idx1, args.idx2,
                                     args.val1, args.val2)
        /\ pc = "done" => loc.prediction = PyTable[ret][TargetDraws]

\* the seed of the observed values was accepted in the last of MaxCalls
\* calls on the shared generator, and its prediction made
C12_Witness ==
    /\ prog = "check_seed_calls"
    /\ pc = "done"
    /\ loc.stage = MaxCalls
    /\ ret = origin.sa
    /\ origin.sa = origin.sb
    /\ loc.prediction = PyTable[ret][TargetDraws]

\* the standard recurrence: word i from the upper bit of word i, the lower 31
\* bits of word (i + 1) mod 624 and word (i + 397) mod 624, with the matrix
\* constant when the combined word is odd
StdMix(y) == Xor(Shr(y, 1), IF y[2] % 2 = 1 THEN MATRIX_A ELSE ZeroWord)

StdWord(mt, i) ==
    Xor(mt[(i + M) % N],
        StdMix(Or(And(mt[i], UPPER_MASK), And(mt[(i + 1) % N], LOWER_MASK))))

StdStep(st) ==
    IF st.i >= N THEN st
    ELSE [mt |-> [st.mt EXCEPT ![st.i] = StdWord(st.mt, st.i)], i |-> st.i + 1]

StandardTwist(mt) == Rep1000(StdStep, [mt |-> mt, i |-> 0]).mt

\* twist-then-temper: the tempered words of the first and of the second
\* standard twist of the initial state
StdOut(t1, t2) ==
    [j \in 1..TwistSpan |-> IF j <= N THEN Temper(t1[j - 1]) ELSE Temper(t2[j - 1 - N])]

StdRow(t1) == StdOut(t1, StandardTwist(t1))

StdTwistTable == [sd \in SeedDomain |-> StandardTwist(InitTable[sd])]

StdTable == [sd \in SeedDomain |-> StdRow(StdTwistTable[sd])]

\* C13: the twist of genrand_int32 gives the words of the standard
\* recurrence, and the draws 0..1247 of a direct replay are the tempered
\* words of one and of two standard twists.
C13_TwistIsStandard ==
    (prog = "replay" /\ pc = "done") =>
        /\ \A i \in 0..(N - 1) : TwistTable[loc.seed][i] = StdTwistTable[loc.seed][i]
        /\ loc.target = StdTable[loc.seed][loc.limit + 1]
        /\ \A j \in 1..TwistSpan : FastTable[loc.seed][j] = StdTable[loc.seed][j]

\* draw 624, the first after the second twist, was replayed for the largest seed
C13_Witness ==
    /\ prog = "replay"
    /\ pc = "done"
    /\ loc.seed = MaxSeed
    /\ loc.limit = N
    /\ loc.target = FastTable[MaxSeed][N + 1]

\* C14: after init_genrand and after every draw the generator has exactly 624
\* words, each in [0, 2^32), and a cursor in [0, 624]; the cursor is 624
\* exactly before the first draw and after every 624th, and every draw reads
\* a word at an index below 624.
C14_GeneratorState ==
    prog = "generator" =>
        /\ DOMAIN rng.mt = 0..(N - 1)
        /\ \A i \in DOMAIN rng.mt : rng.mt[i][1] \in 0..(H - 1) /\ rng.mt[i][2] \in 0..(H - 1)
        /\ rng.index \in 0..N
        /\ (rng.index = N) = (loc.limit % N = 0)
        /\ loc.limit > 0 => loc.base \in 0..(N - 1)

\* the draw after the 624th: the second twist has reset the cursor
C14_Witness ==
    /\ prog = "generator"
    /\ loc.limit = N + 1
    /\ loc.base = 0
    /\ rng.index = 1

\* the chunks of a list of chunks, one after the other
RECURSIVE Flatten(_)
Flatten(chunks) ==
    IF chunks = <<>> THEN <<>> ELSE Head(chunks) \o Flatten(Tail(chunks))

\* the seeds lo .. hi - 1 in order
RangeSeq(lo, hi) == [k \in 1..(IF hi > lo THEN hi - lo ELSE 0) |-> lo + k - 1]

\* each seed of lo .. hi - 1 was evaluated once and no other seed at all
EvaluatedOnce(lo, hi) ==
    \A sd \in SeedDomain :
        loc.count[sd] = IF sd \in lo..(hi - 1) THEN 1 ELSE 0

C16_VerifierPredictorAgree ==
    (prog = "fast_solve_remote" /\ ret # None) =>
        /\ PyTable[ret][args.idx1 + 1] = args.val1
        /\ PyTable[ret][args.idx2 + 1] = args.val2
        /\ \A j \in 1..TwistSpan : PyTable[ret][j] = FastTable[ret][j]
====
